---- MODULE Spec2Model ----
(***************************************************************************)
(* Model of the Discord message scraper (src/main.py): the persistence     *)
(* layer (check_json, filter_logs, write_logs), the message parser         *)
(* (class Message) and the polling loop (scrape_messages /                 *)
(* retrieve_messages) run by MessageScrape.__init__ inside the             *)
(* DiscordSession context manager.                                         *)
(***************************************************************************)
EXTENDS Integers, Sequences, FiniteSets, TLC

\* ------------------------------------------------------------------ bounds
\* most message nodes the page ever shows under the message list
MaxNodes == 2
\* most passes of retrieve_messages, completed or aborted by a re-render of
\* the page (the loop itself is unbounded)
MaxPasses == 2

\* ------------------------------------------------------------ python values
\* Python's None; every field value of a record is a string or None
None == "None"

\* truth value of a field value: None and the empty string are falsy
Truthy(v) == v # None /\ v # ""

\* dict.get(k): the value, or None when the key is missing
Get(d, k) == IF k \in DOMAIN d THEN d[k] ELSE None

\* a value json.loads can return inside a list that is not a dict (a number)
Junk == [scalar |-> "1"]

IsDict(e) == "scalar" \notin DOMAIN e

\* msg.get("is_reply_preview"): a loaded record has no such key
IsPreview(msg) == IF "is_reply_preview" \in DOMAIN msg THEN msg.is_reply_preview ELSE FALSE

\* -------------------------------------------------------------- the page
\* driver.current_url split at "/", without a trailing "/"
VARIABLE current_url

\* the location after the login: no server entered yet
HomeUrl == <<"https:", "", "discord.com", "channels", "@me">>

\* the location of the channel a click on the server, or the user, opens
ChannelUrl == <<"https:", "", "discord.com", "channels", "S1", "C1">>

\* Helpers.get_server_and_channel: the last two segments of the url
get_server_and_channel ==
    LET n == Len(current_url)
    IN  [server |-> current_url[n - 1], channel |-> current_url[n]]

\* the id attribute of the author span, split at "-"; <<>> when the span is absent
NoSpan == <<>>
SpanId(uid) == <<"message", "username", uid>>

\* The message nodes the page can show. Each field is what the lookup of that
\* sub-element finds: id (the li's id attribute), reply (a repliedTextPreview
\* div is present), name (text of the username span), span (id attribute of
\* the message-username span), body (text of the content container), datetime
\* (the time element's attribute).
NodeA == [id |-> "m1", reply |-> FALSE, name |-> "Bob", span |-> SpanId("9"),
          body |-> "crazy", datetime |-> "t1"]
NodeB == [id |-> "m2", reply |-> FALSE, name |-> None, span |-> NoSpan,
          body |-> "there", datetime |-> None]
NodeC == [id |-> "m3", reply |-> FALSE, name |-> None, span |-> NoSpan,
          body |-> "more", datetime |-> "t2"]
NodeP == [id |-> "", reply |-> TRUE, name |-> "Bob", span |-> SpanId("9"),
          body |-> "re", datetime |-> "t1"]

NodePool == {NodeA, NodeB, NodeC, NodeP}

\* dateutil.parser.isoparse(...).timestamp() of the datetime strings in use
isoparse(t) == CASE t = "t0" -> 0 [] t = "t1" -> 1 [] t = "t2" -> 2 [] OTHER -> 0

\* --------------------------------------------------------- the artifact
\* The file at saving_file: absent, or a text. A text is described by what
\* json.loads makes of it: kind "garbage" (JSONDecodeError), "scalar" (a JSON
\* value that is not a list) or "list" (elems), and by its length.
NoFile == [exists |-> FALSE, kind |-> "garbage", len |-> 0, elems |-> <<>>]
Garbage(n) == [exists |-> TRUE, kind |-> "garbage", len |-> n, elems |-> <<>>]
Scalar(n) == [exists |-> TRUE, kind |-> "scalar", len |-> n, elems |-> <<>>]

\* length of the JSON text of one list element: a number is one character, an
\* object is its braces and at least four characters per key
ElemLen(e) == IF IsDict(e) THEN 2 + 4 * Cardinality(DOMAIN e) ELSE 1

RECURSIVE SumLen(_)
SumLen(s) == IF s = <<>> THEN 0 ELSE ElemLen(Head(s)) + SumLen(Tail(s))

\* json.dumps(list): "[" elements joined by ", " "]"
dumps(list) ==
    [exists |-> TRUE, kind |-> "list",
     len |-> 2 + SumLen(list) + (IF Len(list) > 1 THEN 2 * (Len(list) - 1) ELSE 0),
     elems |-> list]

\* a record as an earlier run wrote it: same key as NodeA, another body
OldA == [author_name |-> "Bob", author_id |-> "9", body |-> "old", time |-> "t1",
         server_id |-> "S1", channel_id |-> "C1"]

\* a record of an earlier run by another author
OldZ == [author_name |-> "Zed", author_id |-> "3", body |-> "bye", time |-> "t0",
         server_id |-> "S1", channel_id |-> "C1"]

\* a record another program can add to the artifact
External == [author_name |-> "Eve", author_id |-> "5", body |-> "ext", time |-> "t0",
             server_id |-> "S1", channel_id |-> "C1"]

\* the artifacts a run can find at startup
StartFiles == {NoFile, Garbage(3), Garbage(9), Scalar(7), dumps(<<>>),
               dumps(<<Junk, Junk>>), dumps(<<OldA, OldZ>>)}

\* ------------------------------------------------------------ Helpers.check_json
\* what check_json returns: the list read, or [] for a missing, short or
\* unparsable file, a JSON value that is not a list, or an empty list
check_json(f) ==
    IF f.exists /\ f.len > 3 /\ f.kind = "list" /\ f.elems # <<>>
    THEN f.elems
    ELSE <<>>

\* check_json renames the file aside: only a text longer than 3 characters
\* that does not parse, is not a list, or is an empty list
check_json_renames(f) ==
    f.exists /\ f.len > 3 /\ ~(f.kind = "list" /\ f.elems # <<>>)

\* ------------------------------------------------------------ class Message
Last(s) == s[Len(s)]

\* Message.find_id: the part of the span's id after the last "-"
find_id(node) == IF node.span = NoSpan THEN None ELSE Last(node.span)

\* Message.find_name
find_name(node) == node.name

\* Message.find_text: the text collected, or None when it is empty
find_text(node) == IF node.body = "" THEN None ELSE node.body

\* Message.find_time
find_time(node) == node.datetime

\* the condition of see_if_is_headless on the fields just read
IsHeadless(node) ==
    ~Truthy(find_name(node)) /\ ~Truthy(find_id(node)) /\ Truthy(find_text(node))

\* see_if_is_headless calls last_msg.get: an AttributeError when last_msg is
\* not a dict
MessageFaults(node, last) ==
    last # <<>> /\ ~IsDict(last[1]) /\ IsHeadless(node)

\* Message.see_if_is_headless: the author taken from last_msg, when the node
\* has neither name nor id but a body, and last_msg has both
InheritsAuthor(node, last) ==
    /\ last # <<>>
    /\ IsHeadless(node)
    /\ IsDict(last[1])
    /\ Truthy(Get(last[1], "author_id"))
    /\ Truthy(Get(last[1], "author_name"))

\* Message without see_if_is_headless: the fields as read from the node
MessageAsRead(node, last) ==
    [author_name |-> find_name(node),
     author_id |-> find_id(node),
     body |-> find_text(node),
     time |-> find_time(node),
     server_id |-> get_server_and_channel.server,
     channel_id |-> get_server_and_channel.channel,
     is_reply_preview |-> node.reply]

\* Message.__init__ followed by to_dict; last is <<>> (None) or <<last_msg>>
Message(node, last) ==
    LET inherit == InheritsAuthor(node, last)
    IN  [author_name |-> IF inherit THEN Get(last[1], "author_name") ELSE find_name(node),
         author_id |-> IF inherit THEN Get(last[1], "author_id") ELSE find_id(node),
         body |-> find_text(node),
         time |-> find_time(node),
         server_id |-> get_server_and_channel.server,
         channel_id |-> get_server_and_channel.channel,
         is_reply_preview |-> node.reply]

\* ------------------------------------------------------- MessageScrape.filter_logs
\* remove_previews on a kept entry: the is_reply_preview key is popped
Strip(msg) == [k \in DOMAIN msg \ {"is_reply_preview"} |-> msg[k]]

\* remove_previews that drops the key and keeps the preview
remove_previews_keeps(msg) == <<Strip(msg)>>

\* remove_previews: None (here <<>>) for a preview, else the entry without the key
remove_previews(msg) == IF IsPreview(msg) THEN <<>> ELSE <<Strip(msg)>>

\* SKIP_INVALID and not all(entry.values())
Invalid(entry) == \E k \in DOMAIN entry : ~Truthy(entry[k])

Key(entry) == <<Get(entry, "author_id"), Get(entry, "time")>>

\* filter_logs that keeps the last entry of a key: a later entry replaces
\* the one kept before
RECURSIVE FilterKeepLast(_, _, _, _)
FilterKeepLast(msglist, k, seen, unique) ==
    IF k > Len(msglist) THEN unique
    ELSE LET kept == remove_previews(msglist[k])
         IN  IF kept = <<>> THEN FilterKeepLast(msglist, k + 1, seen, unique)
             ELSE IF Invalid(kept[1]) THEN FilterKeepLast(msglist, k + 1, seen, unique)
             ELSE IF Key(kept[1]) \notin seen
                  THEN FilterKeepLast(msglist, k + 1, seen \cup {Key(kept[1])},
                                      Append(unique, kept[1]))
                  ELSE FilterKeepLast(msglist, k + 1, seen,
                           [j \in 1..Len(unique) |->
                               IF Key(unique[j]) = Key(kept[1]) THEN kept[1] ELSE unique[j]])

\* a filter that puts each record it keeps before the records kept so far
RECURSIVE FilterNewestFirst(_, _, _, _)
FilterNewestFirst(msglist, k, seen, unique) ==
    IF k > Len(msglist) THEN unique
    ELSE LET kept == remove_previews(msglist[k])
         IN  IF kept = <<>> THEN FilterNewestFirst(msglist, k + 1, seen, unique)
             ELSE IF Invalid(kept[1]) THEN FilterNewestFirst(msglist, k + 1, seen, unique)
             ELSE IF Key(kept[1]) \notin seen /\ ~IsPreview(kept[1])
                  THEN FilterNewestFirst(msglist, k + 1, seen \cup {Key(kept[1])},
                                         <<kept[1]>> \o unique)
                  ELSE FilterNewestFirst(msglist, k + 1, seen, unique)

RECURSIVE FilterFrom(_, _, _, _)
FilterFrom(msglist, k, seen, unique) ==
    IF k > Len(msglist) THEN unique
    ELSE LET kept == remove_previews(msglist[k])
         IN  IF kept = <<>> THEN FilterFrom(msglist, k + 1, seen, unique)
             ELSE IF Invalid(kept[1]) THEN FilterFrom(msglist, k + 1, seen, unique)
             ELSE IF Key(kept[1]) \notin seen /\ ~IsPreview(kept[1])
                  THEN FilterFrom(msglist, k + 1, seen \cup {Key(kept[1])},
                                  Append(unique, kept[1]))
                  ELSE FilterFrom(msglist, k + 1, seen, unique)

filter_logs(msglist) == FilterFrom(msglist, 1, {}, <<>>)

\* remove_previews calls msg.get: an AttributeError on an entry that is no dict
FilterFaults(msglist) == \E k \in 1..Len(msglist) : ~IsDict(msglist[k])

\* a filter that pops the key from every entry, previews included
AfterFilterPopsAll(msglist) == [k \in 1..Len(msglist) |-> Strip(msglist[k])]

\* the caller's list after filter_logs: remove_previews popped the key from
\* every entry that is not a preview
AfterFilter(msglist) ==
    [k \in 1..Len(msglist) |->
        IF IsPreview(msglist[k]) THEN msglist[k] ELSE Strip(msglist[k])]

\* ------------------------------------------------------------------ state
VARIABLES
    pc,                \* where the run is: the call about to be made
    artifact,          \* the file at saving_file
    quarantine,        \* contents of the invalidJSON-<time>.json files
    messages,          \* saved_messages, the list scrape_messages appends to
    ids,               \* the seen-set of scrape_messages
    message_box,       \* the list handle in use: the page generation it belongs to
    page_gen,          \* the page's current generation of the message list
    dom,               \* the message nodes under the list, in document order
    current_messages,  \* the nodes retrieve_messages read in this pass
    i,                 \* position of retrieve_messages in current_messages
    last_check,        \* self.last_check
    now,               \* the clock
    cycle,             \* passes completed
    stales,            \* re-renders so far
    edited,            \* another program has edited the artifact
    to_save,           \* the argument of write_logs
    exc,               \* an exception is leaving the with block
    driver,            \* the browser: "open" or "quit"
    interrupted,       \* KeyboardInterrupt arrived: "no", "try" or "outside"
    loaded,            \* history: what load_logs returned
    parse_log,         \* history: one entry per Message built: node, last, out, box
    stale_handles,     \* history: the handles that raised a staleness fault
    crazy_calls,       \* history: the nodes for which crazy() was called
    prev_artifact,     \* history: the artifact when write_logs was entered
    start_file,        \* history: the artifact the run found at startup
    saved,             \* history: save_logs has been called
    target_server_name,  \* os.getenv("target_server_name"), None when not set
    target_channel_id, \* os.getenv("target_channel_id"), None when not set
    nav                \* history: what MessageScrape.__init__ did to reach the channel

vars == <<pc, artifact, quarantine, messages, ids, message_box, page_gen, dom,
          current_messages, i, last_check, now, cycle, stales, edited, to_save,
          exc, driver, interrupted, loaded, parse_log, stale_handles, crazy_calls,
          prev_artifact, start_file, saved, current_url, target_server_name,
          target_channel_id, nav>>

session == <<current_url, target_server_name, target_channel_id, nav>>
env == <<page_gen, dom, stales, edited>>
hist == <<loaded, parse_log, stale_handles, crazy_calls, prev_artifact, start_file,
          saved>>

\* the positions inside scrape_messages's inner try block
InTry == {"find_elements", "for_msg", "crazy", "sleep"}

\* the state when init() enters the with statement: init_sel has started the
\* browser; the artifact is one of files, the two optional settings are
\* drawn from names and channels
Start(files, names, channels) ==
    /\ pc = "enter_discord"
    /\ artifact \in files
    /\ target_server_name \in names
    /\ target_channel_id \in channels
    /\ current_url = <<>>
    /\ nav = <<>>
    /\ quarantine = {}
    /\ messages = <<>>
    /\ ids = {}
    /\ message_box = 0
    /\ page_gen = 1
    /\ dom = <<>>
    /\ current_messages = <<>>
    /\ i = 1
    /\ last_check = 0
    /\ now = 0
    /\ cycle = 0
    /\ stales = 0
    /\ edited = FALSE
    /\ to_save = <<>>
    /\ exc = FALSE
    /\ driver = "open"
    /\ interrupted = "no"
    /\ loaded = <<>>
    /\ parse_log = <<>>
    /\ stale_handles = {}
    /\ crazy_calls = <<>>
    /\ prev_artifact = NoFile
    /\ start_file = artifact
    /\ saved = FALSE

\* a run with a server name and no channel id in .env, over every start file
Init == Start(StartFiles, {"srv"}, {None})

\* a run that finds the records of an earlier run, over every combination
\* of the two settings
InitNav == Start({dumps(<<OldA, OldZ>>)}, {None, "srv"}, {None, "C9"})

\* MessageScrape.get_server_id: the segment before the last of the url
get_server_id(url) == url[Len(url) - 1]

\* what enter_server does to have the channel on the page: with a server
\* name it waits for the server list and clicks the server, without one it
\* waits until the user has made the chat box visible
enter_server_steps ==
    IF Truthy(target_server_name) THEN <<"wait_servers", "click_server">>
                                  ELSE <<"wait_chat_box">>

\* a navigation that goes to the channel without entering a server first
EnterChannelDirectly(url) ==
    IF Truthy(target_channel_id)
    THEN [steps |-> <<"get_channel">>,
          url |-> <<"https:", "", "discord.com", "channels", get_server_id(url),
                    target_channel_id>>]
    ELSE [steps |-> enter_server_steps, url |-> ChannelUrl]

\* MessageScrape.__init__, lines 240 to 244, from the location url:
\* enter_server, then driver.get of the channel when a channel id is set,
\* with the server id taken from the location enter_server arrived at
EnterChannel(url) ==
    IF Truthy(target_channel_id)
    THEN [steps |-> enter_server_steps \o <<"get_channel">>,
          url |-> <<"https:", "", "discord.com", "channels",
                    get_server_id(ChannelUrl), target_channel_id>>]
    ELSE [steps |-> enter_server_steps, url |-> ChannelUrl]

\* ------------------------------------------------------------ the session
\* DiscordSession.__enter__: the login form is filled and submitted
enter_discord ==
    /\ pc = "enter_discord"
    /\ current_url' = HomeUrl
    /\ pc' = "enter_server"
    /\ UNCHANGED <<artifact, quarantine, messages, ids, message_box,
                   current_messages, i, last_check, now, cycle, to_save, exc,
                   driver, interrupted, target_server_name, target_channel_id, nav>>
    /\ UNCHANGED env /\ UNCHANGED hist

\* DiscordSession.__enter__ raises (a field of the login form does not show
\* within the wait): the with statement does not call __exit__
enter_discord_fails ==
    /\ pc = "enter_discord"
    /\ exc' = TRUE
    /\ pc' = "closed"
    /\ UNCHANGED <<artifact, quarantine, messages, ids, message_box,
                   current_messages, i, last_check, now, cycle, to_save,
                   driver, interrupted>>
    /\ UNCHANGED env /\ UNCHANGED hist /\ UNCHANGED session

\* MessageScrape.__init__, lines 240 to 244
enter_server ==
    /\ pc = "enter_server"
    /\ current_url' = EnterChannel(current_url).url
    /\ nav' = EnterChannel(current_url).steps
    /\ pc' = "load_logs"
    /\ UNCHANGED <<artifact, quarantine, messages, ids, message_box,
                   current_messages, i, last_check, now, cycle, to_save, exc,
                   driver, interrupted, target_server_name, target_channel_id>>
    /\ UNCHANGED env /\ UNCHANGED hist

\* enter_server raises: the wait times out, or the server is not in the
\* list and sys.exit(1) is called
enter_server_fails ==
    /\ pc = "enter_server"
    /\ exc' = TRUE
    /\ pc' = "exit"
    /\ UNCHANGED <<artifact, quarantine, messages, ids, message_box,
                   current_messages, i, last_check, now, cycle, to_save,
                   driver, interrupted>>
    /\ UNCHANGED env /\ UNCHANGED hist /\ UNCHANGED session

\* ------------------------------------------------------------ the program
\* MessageScrape.__init__, lines 246 and 251: last_check, then load_logs
load_logs ==
    /\ pc = "load_logs"
    /\ last_check' = now
    /\ messages' = check_json(artifact)
    /\ loaded' = check_json(artifact)
    /\ IF check_json_renames(artifact)
       THEN artifact' = NoFile /\ quarantine' = quarantine \cup {artifact}
       ELSE UNCHANGED <<artifact, quarantine>>
    /\ pc' = "wait_css"
    /\ UNCHANGED <<ids, message_box, current_messages, i, now, cycle, to_save, exc,
                   driver, interrupted, parse_log, stale_handles, crazy_calls,
                   prev_artifact, start_file, saved>>
    /\ UNCHANGED env
    /\ UNCHANGED session

\* wait_css with the seen-set of the handle before kept
wait_css_keeps_ids ==
    /\ pc = "wait_css"
    /\ message_box' = page_gen
    /\ ids' = ids
    /\ pc' = "find_elements"
    /\ UNCHANGED <<artifact, quarantine, messages, current_messages, i, last_check,
                   now, cycle, to_save, exc, driver, interrupted>>
    /\ UNCHANGED env /\ UNCHANGED hist
    /\ UNCHANGED session

\* scrape_messages, lines 329-330: the list handle is located, ids is a new set
wait_css ==
    /\ pc = "wait_css"
    /\ message_box' = page_gen
    /\ ids' = {}
    /\ pc' = "find_elements"
    /\ UNCHANGED <<artifact, quarantine, messages, current_messages, i, last_check,
                   now, cycle, to_save, exc, driver, interrupted>>
    /\ UNCHANGED env /\ UNCHANGED hist
    /\ UNCHANGED session

\* the wait of wait_css ends in TimeoutException, which nothing catches
wait_timeout ==
    /\ pc = "wait_css"
    /\ exc' = TRUE
    /\ pc' = "exit"
    /\ UNCHANGED <<artifact, quarantine, messages, ids, message_box,
                   current_messages, i, last_check, now, cycle, to_save, driver,
                   interrupted>>
    /\ UNCHANGED env /\ UNCHANGED hist
    /\ UNCHANGED session

\* retrieve_messages, line 300: the node set is read
find_elements ==
    /\ pc = "find_elements"
    /\ cycle + stales < MaxPasses
    /\ message_box = page_gen
    /\ current_messages' = dom
    /\ i' = 1
    /\ pc' = "for_msg"
    /\ UNCHANGED <<artifact, quarantine, messages, ids, message_box, last_check, now,
                   cycle, to_save, exc, driver, interrupted>>
    /\ UNCHANGED env /\ UNCHANGED hist
    /\ UNCHANGED session

\* line 314-317: the condition under which crazy() is called for a message
CallsCrazy(msg) ==
    /\ Truthy(msg.body)
    /\ msg.body = "crazy"
    /\ Truthy(msg.time)
    /\ isoparse(msg.time) > last_check

\* retrieve_messages, lines 303-318: one iteration of the loop over the nodes
for_msg ==
    /\ pc = "for_msg"
    /\ i <= Len(current_messages)
    /\ message_box = page_gen
    /\ LET node == current_messages[i]
           m_id == node.id
           last == IF Len(messages) > 0 THEN <<Last(messages)>> ELSE <<>>
           msg == Message(node, last)
       IN  IF m_id \in ids
           THEN /\ i' = i + 1
                /\ UNCHANGED <<pc, ids, messages, exc, parse_log, crazy_calls>>
           ELSE /\ ids' = IF Truthy(m_id) THEN ids \cup {m_id} ELSE ids
                /\ IF MessageFaults(node, last)
                   THEN /\ exc' = TRUE
                        /\ pc' = "exit"
                        /\ UNCHANGED <<i, messages, parse_log, crazy_calls>>
                   ELSE /\ messages' = Append(messages, msg)
                        /\ parse_log' = Append(parse_log,
                                               [node |-> node, last |-> last, out |-> msg,
                                                box |-> message_box])
                        /\ i' = i + 1
                        /\ exc' = exc
                        /\ IF CallsCrazy(msg)
                           THEN pc' = "crazy" /\ crazy_calls' = Append(crazy_calls, node.id)
                           ELSE pc' = pc /\ crazy_calls' = crazy_calls
    /\ UNCHANGED <<artifact, quarantine, message_box, current_messages, last_check,
                   now, cycle, to_save, driver, interrupted, loaded, stale_handles,
                   prev_artifact, start_file, saved>>
    /\ UNCHANGED env
    /\ UNCHANGED session

\* crazy() returns: the text box lost the focus
crazy_return ==
    /\ pc = "crazy"
    /\ message_box = page_gen
    /\ pc' = "for_msg"
    /\ UNCHANGED <<artifact, quarantine, messages, ids, message_box,
                   current_messages, i, last_check, now, cycle, to_save, exc, driver,
                   interrupted>>
    /\ UNCHANGED env /\ UNCHANGED hist
    /\ UNCHANGED session

\* crazy(), line 341: find_element raises NoSuchElementException, which
\* nothing catches
crazy_no_textbox ==
    /\ pc = "crazy"
    /\ exc' = TRUE
    /\ pc' = "exit"
    /\ UNCHANGED <<artifact, quarantine, messages, ids, message_box,
                   current_messages, i, last_check, now, cycle, to_save, driver,
                   interrupted>>
    /\ UNCHANGED env /\ UNCHANGED hist
    /\ UNCHANGED session

\* retrieve_messages, line 320: the pass is over
end_pass ==
    /\ pc = "for_msg"
    /\ i > Len(current_messages)
    /\ last_check' = now
    /\ pc' = "sleep"
    /\ UNCHANGED <<artifact, quarantine, messages, ids, message_box,
                   current_messages, i, now, cycle, to_save, exc, driver, interrupted>>
    /\ UNCHANGED env /\ UNCHANGED hist
    /\ UNCHANGED session

\* retrieve_messages, lines 321 and 325: the sleep, then Codes.PASS
sleep ==
    /\ pc = "sleep"
    /\ now' = now + 1
    /\ cycle' = cycle + 1
    /\ pc' = "find_elements"
    /\ UNCHANGED <<artifact, quarantine, messages, ids, message_box,
                   current_messages, i, last_check, to_save, exc, driver,
                   interrupted>>
    /\ UNCHANGED env /\ UNCHANGED hist
    /\ UNCHANGED session

\* lines 322-324 and 335-336: a read of a detached element raises
\* StaleElementReferenceException; retrieve_messages returns BREAK_INNER and
\* scrape_messages leaves the inner loop
stale_break ==
    /\ \/ pc \in {"find_elements", "crazy"}
       \/ pc = "for_msg" /\ i <= Len(current_messages)
    /\ message_box # page_gen
    /\ stale_handles' = stale_handles \cup {message_box}
    /\ pc' = "wait_css"
    /\ UNCHANGED <<artifact, quarantine, messages, ids, message_box,
                   current_messages, i, last_check, now, cycle, to_save, exc, driver,
                   interrupted, loaded, parse_log, crazy_calls, prev_artifact,
                   start_file, saved>>
    /\ UNCHANGED env
    /\ UNCHANGED session

\* lines 337-338: KeyboardInterrupt inside the try block; scrape_messages
\* returns messages
interrupt_in_try ==
    /\ pc \in InTry
    /\ interrupted = "no"
    /\ interrupted' = "try"
    /\ pc' = "save_logs"
    /\ ids' = {}
    /\ current_messages' = <<>>
    /\ i' = 1
    /\ UNCHANGED <<artifact, quarantine, messages, message_box, last_check, now,
                   cycle, to_save, exc, driver>>
    /\ UNCHANGED env /\ UNCHANGED hist
    /\ UNCHANGED session

\* KeyboardInterrupt outside the try block, in wait_css (line 329): it leaves
\* scrape_messages, __init__ and the with block
interrupt_outside ==
    /\ pc = "wait_css"
    /\ interrupted = "no"
    /\ interrupted' = "outside"
    /\ exc' = TRUE
    /\ pc' = "exit"
    /\ UNCHANGED <<artifact, quarantine, messages, ids, message_box,
                   current_messages, i, last_check, now, cycle, to_save, driver>>
    /\ UNCHANGED env /\ UNCHANGED hist
    /\ UNCHANGED session

\* what open("w") leaves of the file before anything is written
Truncated == Garbage(0)

\* what is in the file when write_text is cut short after a first part of
\* the text (the text without its last character)
Partial(list) == Garbage(dumps(list).len - 1)

\* a write_logs that writes whatever it is given
WritesAlways(to_write) == TRUE

\* write_logs, line 391: the file is written only when to_save is not empty
WritesFile(to_write) == to_write # <<>>

\* __init__, lines 253-254, save_logs, and write_logs up to the open("w") of
\* write_text, which truncates the file
save_logs ==
    /\ pc = "save_logs"
    /\ saved' = (messages # <<>>)
    /\ prev_artifact' = artifact
    /\ IF messages = <<>>
       THEN /\ pc' = "exit"
            /\ UNCHANGED <<messages, to_save, exc, artifact>>
       ELSE IF FilterFaults(messages)
       THEN /\ exc' = TRUE
            /\ pc' = "exit"
            /\ UNCHANGED <<messages, to_save, artifact>>
       ELSE /\ to_save' = filter_logs(messages)
            /\ messages' = AfterFilter(messages)
            /\ exc' = exc
            /\ IF WritesFile(filter_logs(messages))
               THEN pc' = "write_text" /\ artifact' = Truncated
               ELSE pc' = "exit" /\ artifact' = artifact
    /\ UNCHANGED <<quarantine, ids, message_box, current_messages, i, last_check,
                   now, cycle, driver, interrupted, loaded, parse_log,
                   stale_handles, crazy_calls, start_file>>
    /\ UNCHANGED env
    /\ UNCHANGED session

\* write_text: the whole text is in the file and the file is closed
write_text ==
    /\ pc = "write_text"
    /\ artifact' = dumps(to_save)
    /\ pc' = "exit"
    /\ UNCHANGED <<quarantine, messages, ids, message_box, current_messages, i,
                   last_check, now, cycle, to_save, exc, driver, interrupted>>
    /\ UNCHANGED env /\ UNCHANGED hist
    /\ UNCHANGED session

\* write_text is cut short (a further KeyboardInterrupt, a full disk) with
\* nothing or a part of the text written: the exception leaves __init__ and
\* the with block
write_fails ==
    /\ pc = "write_text"
    /\ artifact' \in {Truncated, Partial(to_save)}
    /\ exc' = TRUE
    /\ pc' = "exit"
    /\ UNCHANGED <<quarantine, messages, ids, message_box, current_messages, i,
                   last_check, now, cycle, to_save, driver, interrupted>>
    /\ UNCHANGED env /\ UNCHANGED hist
    /\ UNCHANGED session

\* DiscordSession.__exit__ with an exception: Helpers.screenshot raises (the
\* browser does not answer, or the file cannot be written), and the line
\* after it is not reached
screenshot_fails ==
    /\ pc = "exit"
    /\ exc
    /\ pc' = "closed"
    /\ UNCHANGED <<artifact, quarantine, messages, ids, message_box,
                   current_messages, i, last_check, now, cycle, to_save, exc,
                   driver, interrupted>>
    /\ UNCHANGED env /\ UNCHANGED hist /\ UNCHANGED session

\* DiscordSession.__exit__: the screenshot when an exception is leaving,
\* then driver.quit()
exit ==
    /\ pc = "exit"
    /\ driver' = "quit"
    /\ pc' = "closed"
    /\ UNCHANGED <<artifact, quarantine, messages, ids, message_box,
                   current_messages, i, last_check, now, cycle, to_save, exc,
                   interrupted>>
    /\ UNCHANGED env /\ UNCHANGED hist
    /\ UNCHANGED session

\* ------------------------------------------------------------ the environment
\* a message appears at the end of the list
new_node ==
    /\ pc = "find_elements"
    /\ message_box = page_gen
    /\ Len(dom) < MaxNodes
    /\ \E n \in NodePool :
          /\ \A k \in 1..Len(dom) : dom[k] # n
          /\ dom' = Append(dom, n)
    /\ UNCHANGED <<pc, artifact, quarantine, messages, ids, message_box,
                   current_messages, i, last_check, now, cycle, to_save, exc, driver,
                   interrupted, page_gen, stales, edited>>
    /\ UNCHANGED hist
    /\ UNCHANGED session

\* the page re-renders the message list: the elements located before are detached
rerender ==
    /\ \/ pc \in {"find_elements", "crazy"}
       \/ pc = "for_msg" /\ i <= Len(current_messages)
    /\ message_box = page_gen
    /\ cycle + stales < MaxPasses
    /\ page_gen' = page_gen + 1
    /\ stales' = stales + 1
    /\ UNCHANGED <<pc, artifact, quarantine, messages, ids, message_box,
                   current_messages, i, last_check, now, cycle, to_save, exc, driver,
                   interrupted, dom, edited>>
    /\ UNCHANGED hist
    /\ UNCHANGED session

\* another program adds a record to the records in the artifact while the
\* scraper polls
external_edit ==
    /\ pc = "find_elements"
    /\ ~edited
    /\ artifact.exists /\ artifact.kind = "list" /\ artifact.elems # <<>>
    /\ \A k \in 1..Len(artifact.elems) : IsDict(artifact.elems[k])
    /\ artifact' = dumps(Append(artifact.elems, External))
    /\ edited' = TRUE
    /\ UNCHANGED <<pc, quarantine, messages, ids, message_box, current_messages, i,
                   last_check, now, cycle, to_save, exc, driver, interrupted,
                   page_gen, dom, stales>>
    /\ UNCHANGED hist
    /\ UNCHANGED session

Next ==
    \/ enter_discord
    \/ enter_discord_fails
    \/ enter_server
    \/ enter_server_fails
    \/ screenshot_fails
    \/ load_logs
    \/ wait_css
    \/ wait_timeout
    \/ find_elements
    \/ for_msg
    \/ crazy_return
    \/ crazy_no_textbox
    \/ end_pass
    \/ sleep
    \/ stale_break
    \/ interrupt_in_try
    \/ interrupt_outside
    \/ save_logs
    \/ write_text
    \/ write_fails
    \/ exit
    \/ new_node
    \/ rerender
    \/ external_edit

Spec == Init /\ [][Next]_vars

\* the same program, started over the settings of InitNav
SpecNav == InitNav /\ [][Next]_vars

\* ------------------------------------------------------------ the claims
\* the records handed to save_logs, as history: what the startup load
\* returned, then every record built by Message, in the order of appending
Candidates == loaded \o [k \in 1..Len(parse_log) |-> parse_log[k].out]

\* the records built in this run
NewRecords == [k \in 1..Len(parse_log) |-> parse_log[k].out]

\* a record filter_logs may keep: a dict, no preview, every field present
Eligible(m) ==
    /\ IsDict(m)
    /\ ~IsPreview(m)
    /\ \A k \in DOMAIN m \ {"is_reply_preview"} : Truthy(m[k])

\* the records in the artifact when it holds a list
ArtifactRecs == IF artifact.exists /\ artifact.kind = "list" THEN artifact.elems ELSE <<>>

Range(seq) == {seq[k] : k \in 1..Len(seq)}

\* both author fields of a record are present
Authored(m) == IsDict(m) /\ Truthy(Get(m, "author_name")) /\ Truthy(Get(m, "author_id"))

\* the run is over and save_logs has written the artifact completely
Written == pc \in {"exit", "closed"} /\ saved /\ ~exc /\ to_save # <<>>

\* the artifact holds exactly the eligible candidates, first of each key
Persisted(cands) ==
    /\ \A m \in Range(cands) :
          Eligible(m) => \E r \in Range(ArtifactRecs) : Key(r) = Key(m)
    /\ \A r \in Range(ArtifactRecs) :
          \E m \in Range(cands) : Eligible(m) /\ [k \in DOMAIN r |-> m[k]] = r

\* C1 (as claimed): whenever a pass of retrieve_messages is about to start
\* after at least one completed pass, the records accumulated so far are in
\* the artifact.
C1_SavedAfterEachPass ==
    (pc = "find_elements" /\ cycle > 0 /\ ~edited /\ \A m \in Range(messages) : IsDict(m))
        => Persisted(messages)

\* C2 (as claimed): once a KeyboardInterrupt has arrived while
\* scrape_messages was running and the run is over, the records accumulated
\* in this run have been handed to save_logs.
C2_InterruptSaves ==
    (/\ interrupted # "no"
     /\ pc \in {"exit", "closed"}
     /\ \E m \in Range(NewRecords) : Eligible(m)) => saved

\* C3: a staleness fault leaves the accumulator as it was and sends
\* scrape_messages back to wait_css; the pass that follows starts with a
\* handle that never raised a fault and with an empty seen-set; no handle
\* that raised a fault is read again.
C3_StalenessRecovery ==
    /\ [][(stale_handles' # stale_handles) =>
             (messages' = messages /\ pc' = "wait_css")]_vars
    /\ [][(pc = "wait_css" /\ pc' = "find_elements") =>
             (ids' = {} /\ messages' = messages /\ message_box' \notin stale_handles)]_vars
    /\ [](pc \in {"find_elements", "for_msg", "crazy"} => message_box \notin stale_handles)

\* C3 witness: after a staleness fault with records in the accumulator, a
\* new pass is about to start on a new handle
C3_Witness ==
    /\ pc = "find_elements"
    /\ stale_handles # {}
    /\ Len(parse_log) > 0
    /\ message_box \notin stale_handles
    /\ ids = {}

\* the position of the first eligible candidate with the key of r
FirstWithKey(cands, r) ==
    CHOOSE k \in 1..Len(cands) :
        /\ Eligible(cands[k]) /\ Key(cands[k]) = Key(r)
        /\ \A j \in 1..(k - 1) : ~(Eligible(cands[j]) /\ Key(cands[j]) = Key(r))

\* C4: after a save has written the artifact, its records have pairwise
\* different (author_id, time) keys, every key of an eligible candidate is
\* there, and the record kept for a key is the first eligible candidate with
\* that key (loaded records first, then the new ones as appended).
C4_FirstOfEachKey ==
    Written =>
        /\ artifact.exists /\ artifact.kind = "list"
        /\ \A a, b \in 1..Len(ArtifactRecs) :
              Key(ArtifactRecs[a]) = Key(ArtifactRecs[b]) => a = b
        /\ \A m \in Range(Candidates) :
              Eligible(m) => \E r \in Range(ArtifactRecs) : Key(r) = Key(m)
        /\ \A r \in Range(ArtifactRecs) :
              /\ \E m \in Range(Candidates) : Eligible(m) /\ Key(m) = Key(r)
              /\ r = Strip(Candidates[FirstWithKey(Candidates, r)])

\* C4 witness: the artifact was written from candidates of which two are
\* eligible, share a key and differ in the body
C4_Witness ==
    /\ Written
    /\ \E a, b \in 1..Len(Candidates) :
          /\ a < b
          /\ Eligible(Candidates[a]) /\ Eligible(Candidates[b])
          /\ Key(Candidates[a]) = Key(Candidates[b])
          /\ Candidates[a].body # Candidates[b].body

\* a record of the artifact that was built from a preview node and from no
\* other candidate
FromPreviewOnly(r) ==
    /\ \E m \in Range(NewRecords) : IsPreview(m) /\ Strip(m) = r
    /\ ~\E m \in Range(Candidates) : ~IsPreview(m) /\ Strip(m) = r

\* C5: in every state no record of the artifact comes from a preview node
\* alone, and after a save has written the artifact the key of every
\* eligible candidate is in it, also when a preview with that key came first.
C5_NoPreviewPersisted ==
    /\ \A r \in Range(ArtifactRecs) : ~FromPreviewOnly(r)
    /\ Written =>
          \A m \in Range(Candidates) :
              Eligible(m) => \E r \in Range(ArtifactRecs) : r = Strip(m) \/ Key(r) = Key(m)

\* C5 witness: the artifact was written after a preview was parsed and, later,
\* an eligible record with the preview's key, which is in the artifact
C5_Witness ==
    /\ Written
    /\ \E a, b \in 1..Len(NewRecords) :
          /\ a < b
          /\ IsPreview(NewRecords[a])
          /\ Eligible(NewRecords[b])
          /\ Key(NewRecords[a]) = Key(NewRecords[b])
          /\ Strip(NewRecords[b]) \in Range(ArtifactRecs)


\* a node with neither author name nor author span, and with a body
NodeIsContinuation(n) == ~Truthy(n.name) /\ n.span = NoSpan /\ Truthy(n.body)

\* the entries of parse_log for a continuation node read right after a
\* record with both author fields
AfterAuthored ==
    {k \in 1..Len(parse_log) :
        /\ NodeIsContinuation(parse_log[k].node)
        /\ parse_log[k].last # <<>>
        /\ Authored(parse_log[k].last[1])}

CarriesAuthorOfLast(e) ==
    /\ e.out.author_name = Get(e.last[1], "author_name")
    /\ e.out.author_id = Get(e.last[1], "author_id")

\* the record is eligible and the first eligible candidate with its key is
\* equal to it
KeptBySave(m) ==
    /\ Eligible(m)
    /\ Strip(Candidates[FirstWithKey(Candidates, m)]) = Strip(m)

\* C6 (as claimed): a continuation node read right after a record of this
\* run with both author fields yields a record with that record's author
\* fields, and after a save that record is in the artifact.
C6_ContinuationPersisted ==
    \A k \in AfterAuthored :
        k > 1 =>
            /\ CarriesAuthorOfLast(parse_log[k])
            /\ Written => Strip(parse_log[k].out) \in Range(ArtifactRecs)

\* C6 (amended): the record carries the author fields of the record before
\* it; after a save it is in the artifact exactly when it is eligible (its
\* time and body are present and it is no preview) and no earlier eligible
\* candidate with its key differs from it.
C6_ContinuationInherits ==
    \A k \in AfterAuthored :
        /\ CarriesAuthorOfLast(parse_log[k])
        /\ Written =>
              (Strip(parse_log[k].out) \in Range(ArtifactRecs)
                  <=> KeptBySave(parse_log[k].out))

\* C6 witness: the artifact was written and holds a record built from a
\* continuation node, with the author fields of the record before it, while
\* another such record, without a time, is not in it
C6_Witness ==
    /\ Written
    /\ \E k \in AfterAuthored :
          /\ Strip(parse_log[k].out) \in Range(ArtifactRecs)
          /\ Authored(parse_log[k].out)
    /\ \E k \in AfterAuthored :
          /\ ~Truthy(parse_log[k].out.time)
          /\ Strip(parse_log[k].out) \notin Range(ArtifactRecs)

\* the candidates before the k-th record built in this run that are no previews
PriorNonPreview(k) ==
    {j \in 1..(Len(loaded) + k - 1) : IsDict(Candidates[j]) /\ ~IsPreview(Candidates[j])}

SetMax(S) == CHOOSE x \in S : \A y \in S : y <= x

\* C7 (as claimed): a record built from a continuation node has author
\* fields only when a record that is no preview precedes it, and then those
\* of the nearest such record; otherwise its author fields are absent. (The
\* records loaded at startup count as preceding records here.)
C7_InheritsFromNonPreview ==
    \A k \in 1..Len(parse_log) :
        NodeIsContinuation(parse_log[k].node) =>
            LET out == parse_log[k].out
                prior == PriorNonPreview(k)
            IN  IF prior # {} /\ Authored(Candidates[SetMax(prior)])
                THEN /\ out.author_name = Candidates[SetMax(prior)].author_name
                     /\ out.author_id = Candidates[SetMax(prior)].author_id
                ELSE out.author_name = None /\ out.author_id = None

\* a text check_json is claimed to quarantine: garbage, a JSON value that is
\* no list, a list with an element that is no record
Corrupt(f) ==
    /\ f.exists
    /\ \/ f.kind \in {"garbage", "scalar"}
       \/ f.kind = "list" /\ \E k \in 1..Len(f.elems) : ~IsDict(f.elems[k])

C9_ExternalEditKept ==
    (Written /\ edited) => External \in Range(ArtifactRecs)

\* C10 (as claimed): when the run is over after write_logs was entered with
\* records to write, however it ended, the artifact is the complete previous
\* text or the complete new text, and an artifact that is not empty holds a
\* list of records.
C10_AtomicWrite ==
    (pc \in {"exit", "closed"} /\ saved /\ to_save # <<>>) =>
        /\ artifact = prev_artifact \/ artifact = dumps(to_save)
        /\ (artifact.exists /\ artifact.len > 0) =>
              (artifact.kind = "list" /\ \A k \in 1..Len(artifact.elems) : IsDict(artifact.elems[k]))

\* save_logs has returned without an exception
SaveReturned == pc \in {"exit", "closed"} /\ saved /\ ~exc

\* C11: after save_logs has returned, a second call with the same list (as
\* the first call left it), or with an equal list as it was before the first
\* call, hands the same records in the same order to write_logs, which
\* writes the text the artifact already has, or writes nothing where the
\* first call wrote nothing.
C11_SaveIdempotent ==
    SaveReturned =>
        /\ filter_logs(messages) = to_save
        /\ filter_logs(Candidates) = to_save
        /\ to_save # <<>> => dumps(filter_logs(messages)) = artifact
        /\ to_save = <<>> => artifact = prev_artifact

\* C11 witness: the artifact was written from a list with a preview, with
\* two records that are no previews and have one key, and with more entries
\* than were written
C11_Witness ==
    /\ Written
    /\ \E k \in 1..Len(messages) : IsPreview(messages[k])
    /\ \E a, b \in 1..Len(messages) :
          /\ a < b
          /\ ~IsPreview(messages[a]) /\ ~IsPreview(messages[b])
          /\ Key(messages[a]) = Key(messages[b])
    /\ Len(ArtifactRecs) < Len(messages)

\* C12 (as claimed): when the run has ended, whatever the path, driver.quit()
\* has been called on the browser init_sel started.
C12_BrowserReleased == pc = "closed" => driver = "quit"

\* save_logs was reached (the interrupt was caught inside the polling loop)
\* and is past its filter
SaveEntered == pc \in {"write_text", "exit", "closed"} /\ interrupted = "try"

\* C13: when save was reached and the filtered list is empty (nothing was
\* collected, or nothing passed the filter), the artifact is the artifact
\* save found: no write was started.
C13_NoWriteWhenEmpty == (SaveEntered /\ to_save = <<>>) => artifact = prev_artifact

\* C13 witness: save_logs was called with records none of which passed the
\* filter, and the file that holds a JSON list is still there as it was
C13_Witness ==
    /\ SaveEntered /\ saved /\ ~exc
    /\ to_save = <<>>
    /\ artifact.exists /\ artifact.kind = "list"
    /\ artifact = start_file

\* the steps of enter_server: the search of the server list, the wait for
\* the chat box
ServerSteps == {"wait_servers", "click_server", "wait_chat_box"}

\* MessageScrape.__init__ is past the navigation with a channel id set
ChannelConfigured == nav # <<>> /\ Truthy(target_channel_id)

\* C14 (as claimed): with a channel id set, the navigation that led to the
\* scraping holds no step of enter_server: neither the search of the server
\* list nor the wait for the chat box.
C14_SkipsServerSelection ==
    ChannelConfigured => \A k \in 1..Len(nav) : nav[k] \notin ServerSteps

\* C14 (amended): with a channel id set, the navigation first does what
\* enter_server does without one (server list and click when a server name
\* is set, the wait for the chat box otherwise) and then, as its last step,
\* goes to the location made of the id of the server entered and the channel
\* id; every record built afterwards has that channel id. Without a channel
\* id no such step is made.
C14_EntersServerThenChannel ==
    /\ ChannelConfigured =>
          /\ Len(nav) > 1
          /\ nav[Len(nav)] = "get_channel"
          /\ \A k \in 1..(Len(nav) - 1) : nav[k] \in ServerSteps
          /\ Truthy(target_server_name) <=> nav[1] = "wait_servers"
          /\ ~Truthy(target_server_name) <=> nav[1] = "wait_chat_box"
          /\ current_url = <<"https:", "", "discord.com", "channels", "S1",
                             target_channel_id>>
          /\ \A k \in 1..Len(parse_log) :
                /\ parse_log[k].out.channel_id = target_channel_id
                /\ parse_log[k].out.server_id = "S1"
    /\ (nav # <<>> /\ ~Truthy(target_channel_id)) =>
          \A k \in 1..Len(nav) : nav[k] \in ServerSteps

\* C14 witness: with a server name and a channel id set, a record was built
\* after the server was clicked in the server list and the channel was gone to
C14_Witness ==
    /\ ChannelConfigured
    /\ nav = <<"wait_servers", "click_server", "get_channel">>
    /\ parse_log # <<>>

\* C15 (as claimed): no node was parsed and appended twice under one list
\* handle, whatever its id attribute.
C15_ParsedOncePerHandle ==
    \A j, k \in 1..Len(parse_log) :
        (j < k /\ parse_log[j].box = parse_log[k].box) =>
            parse_log[j].node # parse_log[k].node

\* a from position j on is a subsequence of b from position k on
RECURSIVE IsSubseqFrom(_, _, _, _)
IsSubseqFrom(a, j, b, k) ==
    IF j > Len(a) THEN TRUE
    ELSE IF k > Len(b) THEN FALSE
    ELSE IF a[j] = b[k] THEN IsSubseqFrom(a, j + 1, b, k + 1)
    ELSE IsSubseqFrom(a, j, b, k + 1)

\* the candidates as json.dumps would write them
StrippedCandidates == [k \in 1..Len(Candidates) |-> Strip(Candidates[k])]

\* C16: after a save has written the artifact, its records are a
\* subsequence of the loaded records followed by the records of this run in
\* the order of appending; their order is the order in which their keys
\* first came up among the candidates, so a record that was loaded stands
\* before every record first found in this run.
C16_NeverResorts ==
    Written =>
        /\ IsSubseqFrom(ArtifactRecs, 1, StrippedCandidates, 1)
        /\ \A a, b \in 1..Len(ArtifactRecs) :
              a < b => FirstWithKey(Candidates, ArtifactRecs[a])
                           < FirstWithKey(Candidates, ArtifactRecs[b])
        /\ \A a, b \in 1..Len(ArtifactRecs) :
              (/\ FirstWithKey(Candidates, ArtifactRecs[a]) <= Len(loaded)
               /\ FirstWithKey(Candidates, ArtifactRecs[b]) > Len(loaded)) => a < b

\* C16 witness: the artifact was written with two loaded records in their
\* loaded order and, after them, a record first found in this run, while a
\* record of this run with the key of a loaded one was left out
C16_Witness ==
    /\ Written
    /\ Len(loaded) = 2 /\ Len(ArtifactRecs) = 3
    /\ ArtifactRecs[1] = loaded[1] /\ ArtifactRecs[2] = loaded[2]
    /\ ArtifactRecs[3] \notin Range(loaded)
    /\ Len(Candidates) > 3

\* C17 (as claimed): after a save has written the artifact, the records in
\* it that were built from one node are one record, however often the node
\* was parsed.
C17_OneRecordPerNode ==
    Written =>
        \A j, k \in 1..Len(parse_log) :
            (/\ parse_log[j].node = parse_log[k].node
             /\ Strip(parse_log[j].out) \in Range(ArtifactRecs)
             /\ Strip(parse_log[k].out) \in Range(ArtifactRecs))
                => Strip(parse_log[j].out) = Strip(parse_log[k].out)

\* C18 (as claimed): when the run has ended with the browser closed, the key
\* of every eligible record built in this run is in the artifact, whatever
\* ended the run.
C18_PersistedOnEveryEnd ==
    (pc = "closed" /\ driver = "quit") =>
        \A m \in Range(NewRecords) :
            Eligible(m) => \E r \in Range(ArtifactRecs) : Key(r) = Key(m)

\* C19 (as claimed): crazy() is called at most once for a node.
C19_CrazyOncePerNode ==
    \A j, k \in 1..Len(crazy_calls) : j < k => crazy_calls[j] # crazy_calls[k]


====
